---- MODULE Spec2Model ----
(***************************************************************************)
(* A model of sourcecred's plugin orchestration (backend/pluginLoaders.js) *)
(* and of the distribution normalizer exercised by                         *)
(* core/algorithm/distributionToCred.test.js.                              *)
(*                                                                         *)
(* Optional JS values (T | null | undefined) are encoded as sequences:     *)
(* NULL is the empty sequence and Some(v) is the one-element sequence.     *)
(***************************************************************************)
EXTENDS Integers, Sequences, FiniteSets, TLC

\* ------------------------------------------------------------------ bounds
MaxRepos == 1
MaxIdentities == 1
MaxIntervals == 2
MaxNodes == 2

\* ----------------------------------------------------------- optional values
NULL == <<>>
Some(v) == <<v>>
Truthy(x) == x # NULL
Get(x) == x[1]

\* ------------------------------------------------------------------- state
VARIABLES
  project,              \* the Project handed to the pipeline
  mirrorToken,          \* MirrorEnv.githubToken ("" when absent)
  initiativesDirectory, \* MirrorEnv.initiativesDirectory ("" when absent)
  graphToken,           \* GraphEnv.githubToken ("" when absent)
  ops,                  \* state of every adapter operation's promise
  calls,                \* how many times each adapter operation was invoked
  settled,              \* the adapter promises in the order they settled
  um,                   \* position of updateMirror
  umError,              \* why updateMirror threw
  tasks,                \* updateMirror's local `tasks`
  loadedInitiativesDir, \* updateMirror's local `loadedInitiativesDir`
  cachedProject,        \* the CachedProject updateMirror returned
  crd,                  \* position of createReferenceDetector
  refs,                 \* createReferenceDetector's local `refs`
  referenceDetector,    \* the detector createReferenceDetector returned
  cpg,                  \* position of createPluginGraphs
  cpgError,             \* why createPluginGraphs threw
  gtasks,               \* createPluginGraphs' local `tasks`
  pluginGraphs,         \* the PluginGraphs createPluginGraphs returned
  con,                  \* position of contractPluginGraphs
  mergedGraph,          \* contractPluginGraphs' local `mergedGraph`
  identitySpec,         \* the identitySpec handed to contractIdentities
  weightedGraph,        \* what contractPluginGraphs returned
  credIn,               \* the arguments of distributionToCred
  credOut,              \* its result
  decls,                \* what declarations(loaders, project) returned
  json,                 \* a persisted project document (a Compatible)
  loaded,               \* the outcome of projectFromJSON(json)
  migrated,             \* the keys of `upgrades` applied by that call
  sp,                   \* position of DataDirectory.storeProject
  extras,               \* storeProject's ProjectStorageExtras argument
  mkdirp,               \* state of the fs.mkdirp promise
  created,              \* the directories fs.mkdirp was asked to create
  written               \* the documents handed to a writer, by file name

envVars == <<project, mirrorToken, initiativesDirectory, graphToken>>
opVars == <<ops, calls, settled>>
umVars == <<um, umError, tasks, loadedInitiativesDir, cachedProject>>
crdVars == <<crd, refs, referenceDetector>>
cpgVars == <<cpg, cpgError, gtasks, pluginGraphs>>
conVars == <<con, mergedGraph, identitySpec, weightedGraph>>
credVars == <<credIn, credOut>>
declVars == <<decls>>
jsonVars == <<json, loaded, migrated>>
storeVars == <<sp, extras, mkdirp, created, written>>
ioVars == <<declVars, jsonVars, storeVars>>
vars == <<envVars, opVars, umVars, crdVars, cpgVars, conVars, credVars, ioVars>>

\* ------------------------------------------------------- adapter operations
MirrorOps == {"discourse.updateMirror", "github.updateMirror",
              "initiatives.loadDirectory"}
DetectorOps == {"github.referenceDetector", "discourse.referenceDetector"}
GraphOps == {"discourse.createGraph", "github.createGraph",
             "initiatives.createGraph"}
OpNames == MirrorOps \cup DetectorOps \cup GraphOps
             \cup {"identity.contractIdentities"}

\* Calling an async adapter function: its promise is pending from then on.
Invoke(o) ==
  /\ ops' = [ops EXCEPT ![o] = "inflight"]
  /\ calls' = [calls EXCEPT ![o] = @ + 1]
  /\ UNCHANGED settled

\* A pending adapter promise settles, either way, at a time of its choosing;
\* settled lists the promises in the order of their settlement.
OpSucceeds ==
  /\ \E o \in OpNames :
       /\ ops[o] = "inflight"
       /\ ops' = [ops EXCEPT ![o] = "ok"]
       /\ settled' = Append(settled, o)
  /\ UNCHANGED <<envVars, calls, umVars, crdVars, cpgVars, conVars, credVars, ioVars>>

OpFails ==
  /\ \E o \in OpNames :
       /\ ops[o] = "inflight"
       /\ ops' = [ops EXCEPT ![o] = "failed"]
       /\ settled' = Append(settled, o)
  /\ UNCHANGED <<envVars, calls, umVars, crdVars, cpgVars, conVars, credVars, ioVars>>

\* Promise.all over a list of adapter promises: rejected as soon as one is
\* rejected, fulfilled once all are fulfilled, pending otherwise.
PromiseAllOnFirstSettled(ts) ==
  IF \E i \in 1..Len(ts) : ops[ts[i]] = "failed" THEN "rejected"
  ELSE IF ts = <<>> \/ \E i \in 1..Len(ts) : ops[ts[i]] = "ok" THEN "fulfilled"
  ELSE "pending"

PromiseAllRejectsEarly(ts) ==
  IF \A i \in 1..Len(ts) : ops[ts[i]] = "ok" THEN "fulfilled"
  ELSE IF \E i \in 1..Len(ts) : ops[ts[i]] # "ok" THEN "rejected"
  ELSE "pending"

PromiseAll(ts) ==
  IF \E i \in 1..Len(ts) : ops[ts[i]] = "failed" THEN "rejected"
  ELSE IF \A i \in 1..Len(ts) : ops[ts[i]] = "ok" THEN "fulfilled"
  ELSE "pending"

\* ------------------------------------------------------------------ inputs
RECURSIVE SeqsUpTo(_, _)
SeqsUpTo(S, n) ==
  IF n = 0 THEN {<<>>}
  ELSE LET shorter == SeqsUpTo(S, n - 1)
       IN shorter \cup {Append(s, x) : s \in shorter, x \in S}

Projects ==
  [id : {"p"},
   repoIds : SeqsUpTo({"owner/repo"}, MaxRepos),
   discourseServer : {NULL, Some([serverUrl |-> "https://forum"])},
   identities : SeqsUpTo({"alice"}, MaxIdentities),
   initiatives : {NULL, Some([remoteUrl |-> "https://initiatives"])}]

Tokens == {"", "token"}
Directories == {"", "/initiatives"}

PipelineIdle ==
  /\ ops = [o \in OpNames |-> "idle"]
  /\ calls = [o \in OpNames |-> 0]
  /\ settled = <<>>
  /\ um = "idle" /\ umError = "none" /\ tasks = <<>>
  /\ loadedInitiativesDir = NULL /\ cachedProject = NULL
  /\ crd = "idle" /\ refs = <<>> /\ referenceDetector = NULL
  /\ cpg = "idle" /\ cpgError = "none" /\ gtasks = <<>> /\ pluginGraphs = NULL
  /\ con = "idle" /\ mergedGraph = NULL /\ identitySpec = NULL
  /\ weightedGraph = NULL

CredIdle == credIn = NULL /\ credOut = NULL

IoIdle ==
  /\ decls = NULL
  /\ json = NULL /\ loaded = NULL /\ migrated = <<>>
  /\ sp = "idle" /\ extras = NULL /\ mkdirp = "idle"
  /\ created = {} /\ written = <<>>

Init ==
  /\ project \in Projects
  /\ mirrorToken \in Tokens
  /\ initiativesDirectory \in Directories
  /\ graphToken \in Tokens
  /\ PipelineIdle
  /\ CredIdle
  /\ IoIdle

\* The order in which the caller of the pipeline runs its stages: each stage
\* is called with what the stage before it returned.
MayStart(stage) ==
  CASE stage = "updateMirror" -> um = "idle"
    [] stage = "createReferenceDetector" -> crd = "idle" /\ Truthy(cachedProject)
    [] stage = "createPluginGraphs" ->
         cpg = "idle" /\ Truthy(cachedProject) /\ Truthy(referenceDetector)
    [] stage = "contractPluginGraphs" -> con = "idle" /\ Truthy(pluginGraphs)

\* ------------------------------------------------------------ declarations
declarationsIdentityLast(p) ==
  (IF Len(p.repoIds) # 0 THEN <<"github">> ELSE <<>>)
  \o (IF p.discourseServer # NULL THEN <<"discourse">> ELSE <<>>)
  \o (IF Truthy(p.initiatives) THEN <<"initiatives">> ELSE <<>>)
  \o (IF Len(p.identities) # 0 THEN <<"identity">> ELSE <<>>)

\* `plugins.push(...)` under each source's test, in the order of the code;
\* a declaration is named by its source.
declarations(p) ==
  (IF Len(p.repoIds) # 0 THEN <<"github">> ELSE <<>>)
  \o (IF p.discourseServer # NULL THEN <<"discourse">> ELSE <<>>)
  \o (IF Len(p.identities) # 0 THEN <<"identity">> ELSE <<>>)
  \o (IF Truthy(p.initiatives) THEN <<"initiatives">> ELSE <<>>)

\* `declarations(loaders, project)`, a synchronous call on the project alone.
Declarations ==
  /\ decls = NULL
  /\ decls' = Some(declarations(project))
  /\ UNCHANGED <<envVars, opVars, umVars, crdVars, cpgVars, conVars, credVars,
                 jsonVars, storeVars>>

\* ------------------------------------------------------------ updateMirror
\* `const tasks = []`
UM_Start ==
  /\ MayStart("updateMirror")
  /\ um' = "L95" /\ tasks' = <<>>
  /\ UNCHANGED <<envVars, opVars, umError, loadedInitiativesDir, cachedProject,
                 crdVars, cpgVars, conVars, credVars, ioVars>>

UM_DiscourseUnconditional ==
  /\ um = "L95"
  /\ Invoke("discourse.updateMirror")
  /\ tasks' = Append(tasks, "discourse.updateMirror")
  /\ um' = "L100"
  /\ UNCHANGED <<envVars, umError, loadedInitiativesDir, cachedProject,
                 crdVars, cpgVars, conVars, credVars, ioVars>>

\* `if (project.discourseServer) tasks.push(discourse.updateMirror(...))`
UM_Discourse ==
  /\ um = "L95"
  /\ IF Truthy(project.discourseServer)
       THEN /\ Invoke("discourse.updateMirror")
            /\ tasks' = Append(tasks, "discourse.updateMirror")
       ELSE UNCHANGED <<opVars, tasks>>
  /\ um' = "L100"
  /\ UNCHANGED <<envVars, umError, loadedInitiativesDir, cachedProject,
                 crdVars, cpgVars, conVars, credVars, ioVars>>

\* `if (project.repoIds.length) { if (!githubToken) throw ...; tasks.push(...) }`
UM_GithubAfterDiscourse ==
  /\ um = "L100"
  /\ \A i \in 1..Len(tasks) : ops[tasks[i]] # "inflight"
  /\ IF Len(project.repoIds) # 0
       THEN IF mirrorToken = ""
              THEN /\ um' = "failed" /\ umError' = "token"
                   /\ UNCHANGED <<opVars, tasks>>
              ELSE /\ Invoke("github.updateMirror")
                   /\ tasks' = Append(tasks, "github.updateMirror")
                   /\ um' = "L110" /\ UNCHANGED umError
       ELSE /\ um' = "L110" /\ UNCHANGED <<opVars, tasks, umError>>
  /\ UNCHANGED <<envVars, loadedInitiativesDir, cachedProject,
                 crdVars, cpgVars, conVars, credVars, ioVars>>

UM_Github ==
  /\ um = "L100"
  /\ IF Len(project.repoIds) # 0
       THEN IF mirrorToken = ""
              THEN /\ um' = "failed" /\ umError' = "token"
                   /\ UNCHANGED <<opVars, tasks>>
              ELSE /\ Invoke("github.updateMirror")
                   /\ tasks' = Append(tasks, "github.updateMirror")
                   /\ um' = "L110" /\ UNCHANGED umError
       ELSE /\ um' = "L110" /\ UNCHANGED <<opVars, tasks, umError>>
  /\ UNCHANGED <<envVars, loadedInitiativesDir, cachedProject,
                 crdVars, cpgVars, conVars, credVars, ioVars>>

\* `if (project.initiatives) { if (!initiativesDirectory) throw ...;
\*    loadedInitiativesDir = await initiatives.loadDirectory(...) }`
UM_Initiatives ==
  /\ um = "L110"
  /\ IF Truthy(project.initiatives)
       THEN IF initiativesDirectory = ""
              THEN /\ um' = "failed" /\ umError' = "directory"
                   /\ UNCHANGED opVars
              ELSE /\ Invoke("initiatives.loadDirectory")
                   /\ um' = "L116" /\ UNCHANGED umError
       ELSE /\ um' = "L125" /\ UNCHANGED <<opVars, umError>>
  /\ UNCHANGED <<envVars, tasks, loadedInitiativesDir, cachedProject,
                 crdVars, cpgVars, conVars, credVars, ioVars>>

\* The value a successful initiatives.loadDirectory resolves to.
LoadedDirectory ==
  [referenceDetector |-> "initiatives", initiatives |-> "initiativeRepository"]

UM_AwaitLoadDropsDirectory ==
  /\ um = "L116"
  /\ \/ /\ ops["initiatives.loadDirectory"] = "ok"
        /\ um' = "L125" /\ UNCHANGED <<umError, loadedInitiativesDir>>
     \/ /\ ops["initiatives.loadDirectory"] = "failed"
        /\ um' = "failed" /\ umError' = "task"
        /\ UNCHANGED loadedInitiativesDir
  /\ UNCHANGED <<envVars, opVars, tasks, cachedProject,
                 crdVars, cpgVars, conVars, credVars, ioVars>>

\* The `await` of initiatives.loadDirectory resumes once that promise settles.
UM_AwaitLoad ==
  /\ um = "L116"
  /\ \/ /\ ops["initiatives.loadDirectory"] = "ok"
        /\ loadedInitiativesDir' = Some(LoadedDirectory)
        /\ um' = "L125" /\ UNCHANGED umError
     \/ /\ ops["initiatives.loadDirectory"] = "failed"
        /\ um' = "failed" /\ umError' = "task"
        /\ UNCHANGED loadedInitiativesDir
  /\ UNCHANGED <<envVars, opVars, tasks, cachedProject,
                 crdVars, cpgVars, conVars, credVars, ioVars>>

\* `await Promise.all(tasks); return {project, cache, loadedInitiativesDir}`
UM_AwaitAll ==
  /\ um = "L125"
  /\ \/ /\ PromiseAll(tasks) = "fulfilled"
        /\ um' = "returned" /\ UNCHANGED umError
        /\ cachedProject' = Some([project |-> project, cache |-> "cache",
                                  loadedInitiativesDir |-> loadedInitiativesDir])
     \/ /\ PromiseAll(tasks) = "rejected"
        /\ um' = "failed" /\ umError' = "task"
        /\ UNCHANGED cachedProject
  /\ UNCHANGED <<envVars, opVars, tasks, loadedInitiativesDir,
                 crdVars, cpgVars, conVars, credVars, ioVars>>

UpdateMirror ==
  \/ UM_Start \/ UM_Discourse \/ UM_Github \/ UM_Initiatives
  \/ UM_AwaitLoad \/ UM_AwaitAll

\* ------------------------------------------------- createReferenceDetector
\* `const refs = []`
CRD_Start ==
  /\ MayStart("createReferenceDetector")
  /\ crd' = "L135" /\ refs' = <<>>
  /\ UNCHANGED <<envVars, opVars, umVars, referenceDetector,
                 cpgVars, conVars, credVars, ioVars>>

\* `if (project.repoIds.length) { if (!githubToken) throw ...;
\*    refs.push(await github.referenceDetector(...)) }`
CRD_Github ==
  /\ crd = "L135"
  /\ IF Len(Get(cachedProject).project.repoIds) # 0
       THEN IF graphToken = ""
              THEN crd' = "failed" /\ UNCHANGED opVars
              ELSE Invoke("github.referenceDetector") /\ crd' = "L140"
       ELSE crd' = "L143" /\ UNCHANGED opVars
  /\ UNCHANGED <<envVars, umVars, refs, referenceDetector,
                 cpgVars, conVars, credVars, ioVars>>

CRD_AwaitGithub ==
  /\ crd = "L140"
  /\ \/ /\ ops["github.referenceDetector"] = "ok"
        /\ refs' = Append(refs, "github") /\ crd' = "L143"
     \/ /\ ops["github.referenceDetector"] = "failed"
        /\ crd' = "failed" /\ UNCHANGED refs
  /\ UNCHANGED <<envVars, opVars, umVars, referenceDetector,
                 cpgVars, conVars, credVars, ioVars>>

\* `if (project.discourseServer)
\*    refs.push(await discourse.referenceDetector(...))`
CRD_Discourse ==
  /\ crd = "L143"
  /\ IF Truthy(Get(cachedProject).project.discourseServer)
       THEN Invoke("discourse.referenceDetector") /\ crd' = "L145"
       ELSE crd' = "L148" /\ UNCHANGED opVars
  /\ UNCHANGED <<envVars, umVars, refs, referenceDetector,
                 cpgVars, conVars, credVars, ioVars>>

CRD_AwaitDiscourse ==
  /\ crd = "L145"
  /\ \/ /\ ops["discourse.referenceDetector"] = "ok"
        /\ refs' = Append(refs, "discourse") /\ crd' = "L148"
     \/ /\ ops["discourse.referenceDetector"] = "failed"
        /\ crd' = "failed" /\ UNCHANGED refs
  /\ UNCHANGED <<envVars, opVars, umVars, referenceDetector,
                 cpgVars, conVars, credVars, ioVars>>

CRD_ReturnSwapped ==
  /\ crd = "L148"
  /\ LET dir == Get(cachedProject).loadedInitiativesDir
         all == IF Truthy(dir)
                  THEN <<Get(dir).referenceDetector>> \o refs
                  ELSE refs
     IN /\ refs' = all
        /\ referenceDetector' = Some([children |-> all])
  /\ crd' = "returned"
  /\ UNCHANGED <<envVars, opVars, umVars, cpgVars, conVars, credVars, ioVars>>

\* `if (loadedInitiativesDir) refs.push(loadedInitiativesDir.referenceDetector);
\*  return new CascadingReferenceDetector(refs)`
CRD_Return ==
  /\ crd = "L148"
  /\ LET dir == Get(cachedProject).loadedInitiativesDir
         all == IF Truthy(dir)
                  THEN Append(refs, Get(dir).referenceDetector)
                  ELSE refs
     IN /\ refs' = all
        /\ referenceDetector' = Some([children |-> all])
  /\ crd' = "returned"
  /\ UNCHANGED <<envVars, opVars, umVars, cpgVars, conVars, credVars, ioVars>>

CreateReferenceDetector ==
  \/ CRD_Start \/ CRD_Github \/ CRD_AwaitGithub \/ CRD_Discourse
  \/ CRD_AwaitDiscourse \/ CRD_Return

\* ------------------------------------------------------ createPluginGraphs
\* `const tasks = []`; the call receives its own GraphEnv argument.
CPG_Start ==
  /\ MayStart("createPluginGraphs")
  /\ graphToken' \in Tokens
  /\ cpg' = "L165" /\ gtasks' = <<>>
  /\ UNCHANGED <<project, mirrorToken, initiativesDirectory, opVars, umVars,
                 crdVars, cpgError, pluginGraphs, conVars, credVars, ioVars>>

\* `if (project.discourseServer) tasks.push(discourse.createGraph(...))`
CPG_Discourse ==
  /\ cpg = "L165"
  /\ IF Truthy(Get(cachedProject).project.discourseServer)
       THEN /\ Invoke("discourse.createGraph")
            /\ gtasks' = Append(gtasks, "discourse.createGraph")
       ELSE UNCHANGED <<opVars, gtasks>>
  /\ cpg' = "L169"
  /\ UNCHANGED <<envVars, umVars, crdVars, cpgError, pluginGraphs,
                 conVars, credVars, ioVars>>

\* `if (project.repoIds.length) { if (!githubToken) throw ...;
\*    tasks.push(github.createGraph(...)) }`
CPG_GithubSkippedWithoutToken ==
  /\ cpg = "L169"
  /\ IF Len(Get(cachedProject).project.repoIds) # 0 /\ graphToken # ""
       THEN /\ Invoke("github.createGraph")
            /\ gtasks' = Append(gtasks, "github.createGraph")
       ELSE UNCHANGED <<opVars, gtasks>>
  /\ cpg' = "L176" /\ UNCHANGED cpgError
  /\ UNCHANGED <<envVars, umVars, crdVars, pluginGraphs, conVars, credVars, ioVars>>

CPG_Github ==
  /\ cpg = "L169"
  /\ IF Len(Get(cachedProject).project.repoIds) # 0
       THEN IF graphToken = ""
              THEN /\ cpg' = "failed" /\ cpgError' = "token"
                   /\ UNCHANGED <<opVars, gtasks>>
              ELSE /\ Invoke("github.createGraph")
                   /\ gtasks' = Append(gtasks, "github.createGraph")
                   /\ cpg' = "L176" /\ UNCHANGED cpgError
       ELSE /\ cpg' = "L176" /\ UNCHANGED <<opVars, gtasks, cpgError>>
  /\ UNCHANGED <<envVars, umVars, crdVars, pluginGraphs, conVars, credVars, ioVars>>

\* `if (loadedInitiativesDir) tasks.push(initiatives.createGraph(...))`
CPG_Initiatives ==
  /\ cpg = "L176"
  /\ IF Truthy(Get(cachedProject).loadedInitiativesDir)
       THEN /\ Invoke("initiatives.createGraph")
            /\ gtasks' = Append(gtasks, "initiatives.createGraph")
       ELSE UNCHANGED <<opVars, gtasks>>
  /\ cpg' = "L189"
  /\ UNCHANGED <<envVars, umVars, crdVars, cpgError, pluginGraphs,
                 conVars, credVars, ioVars>>

\* The WeightedGraph a successful createGraph of an adapter resolves to: a
\* fresh instance holding the nodes of that adapter's namespace.
GraphOf(o) == [instance |-> o, namespaces |-> {o}, contracted |-> FALSE]

CPG_ReturnUnjoined ==
  /\ cpg = "L189"
  /\ cpg' = "returned" /\ UNCHANGED cpgError
  /\ pluginGraphs' =
       Some([graphs |-> [i \in 1..Len(gtasks) |-> GraphOf(gtasks[i])],
             cachedProject |->
               [cache |-> Get(cachedProject).cache,
                project |-> Get(cachedProject).project,
                loadedInitiativesDir |->
                  Get(cachedProject).loadedInitiativesDir]])
  /\ UNCHANGED <<envVars, opVars, umVars, crdVars, gtasks, conVars, credVars, ioVars>>

CPG_AwaitAllInCompletionOrder ==
  /\ cpg = "L189"
  /\ \/ /\ PromiseAll(gtasks) = "fulfilled"
        /\ cpg' = "returned" /\ UNCHANGED cpgError
        /\ LET started(o) == \E i \in 1..Len(gtasks) : gtasks[i] = o
               done == SelectSeq(settled, started)
           IN pluginGraphs' =
                Some([graphs |-> [i \in 1..Len(done) |-> GraphOf(done[i])],
                      cachedProject |->
                        [cache |-> Get(cachedProject).cache,
                         project |-> Get(cachedProject).project,
                         loadedInitiativesDir |->
                           Get(cachedProject).loadedInitiativesDir]])
     \/ /\ PromiseAll(gtasks) = "rejected"
        /\ cpg' = "failed" /\ cpgError' = "task"
        /\ UNCHANGED pluginGraphs
  /\ UNCHANGED <<envVars, opVars, umVars, crdVars, gtasks, conVars, credVars, ioVars>>

\* `return {graphs: await Promise.all(tasks),
\*          cachedProject: {cache, project, loadedInitiativesDir}}`
CPG_AwaitAll ==
  /\ cpg = "L189"
  /\ \/ /\ PromiseAll(gtasks) = "fulfilled"
        /\ cpg' = "returned" /\ UNCHANGED cpgError
        /\ pluginGraphs' =
             Some([graphs |-> [i \in 1..Len(gtasks) |-> GraphOf(gtasks[i])],
                   cachedProject |->
                     [cache |-> Get(cachedProject).cache,
                      project |-> Get(cachedProject).project,
                      loadedInitiativesDir |->
                        Get(cachedProject).loadedInitiativesDir]])
     \/ /\ PromiseAll(gtasks) = "rejected"
        /\ cpg' = "failed" /\ cpgError' = "task"
        /\ UNCHANGED pluginGraphs
  /\ UNCHANGED <<envVars, opVars, umVars, crdVars, gtasks, conVars, credVars, ioVars>>

CreatePluginGraphs ==
  \/ CPG_Start \/ CPG_Discourse \/ CPG_Github \/ CPG_Initiatives
  \/ CPG_AwaitAll

\* ---------------------------------------------------- contractPluginGraphs
\* WeightedGraph.merge: a new graph, the union of the given graphs (the empty
\* graph for none).
Merge(graphs) ==
  [instance |-> "merged",
   namespaces |-> UNION {graphs[i].namespaces : i \in 1..Len(graphs)},
   contracted |-> FALSE]

\* What identity.contractIdentities resolves to: a rewritten copy.
Contracted(g) ==
  [instance |-> "contracted", namespaces |-> g.namespaces, contracted |-> TRUE]

\* `const mergedGraph = WeightedGraph.merge(graphs)`
CON_Merge ==
  /\ MayStart("contractPluginGraphs")
  /\ mergedGraph' = Some(Merge(Get(pluginGraphs).graphs))
  /\ con' = "L205"
  /\ UNCHANGED <<envVars, opVars, umVars, crdVars, cpgVars, identitySpec,
                 weightedGraph, credVars, ioVars>>

CON_ContractAlways ==
  /\ con = "L205"
  /\ LET p == Get(pluginGraphs).cachedProject.project
         discourseServer == IF Truthy(p.discourseServer)
                              THEN Get(p.discourseServer)
                              ELSE [serverUrl |-> "null"]
     IN /\ identitySpec' =
             Some([identities |-> p.identities,
                   discourseServerUrl |-> discourseServer.serverUrl])
        /\ Invoke("identity.contractIdentities")
        /\ con' = "L214"
        /\ UNCHANGED weightedGraph
  /\ UNCHANGED <<envVars, umVars, crdVars, cpgVars, mergedGraph, credVars, ioVars>>

CON_ContractWithoutServerUrl ==
  /\ con = "L205"
  /\ LET p == Get(pluginGraphs).cachedProject.project
     IN IF Len(p.identities) = 0
          THEN /\ weightedGraph' = mergedGraph
               /\ con' = "returned"
               /\ UNCHANGED <<opVars, identitySpec>>
          ELSE /\ identitySpec' =
                    Some([identities |-> p.identities,
                          discourseServerUrl |-> "null"])
               /\ Invoke("identity.contractIdentities")
               /\ con' = "L214"
               /\ UNCHANGED weightedGraph
  /\ UNCHANGED <<envVars, umVars, crdVars, cpgVars, mergedGraph, credVars, ioVars>>

\* `if (!project.identities.length) return mergedGraph;` and otherwise
\* `return identity.contractIdentities(mergedGraph, identitySpec)`
CON_Contract ==
  /\ con = "L205"
  /\ LET p == Get(pluginGraphs).cachedProject.project
         discourseServer == IF Truthy(p.discourseServer)
                              THEN Get(p.discourseServer)
                              ELSE [serverUrl |-> "null"]
     IN IF Len(p.identities) = 0
          THEN /\ weightedGraph' = mergedGraph
               /\ con' = "returned"
               /\ UNCHANGED <<opVars, identitySpec>>
          ELSE /\ identitySpec' =
                    Some([identities |-> p.identities,
                          discourseServerUrl |-> discourseServer.serverUrl])
               /\ Invoke("identity.contractIdentities")
               /\ con' = "L214"
               /\ UNCHANGED weightedGraph
  /\ UNCHANGED <<envVars, umVars, crdVars, cpgVars, mergedGraph, credVars, ioVars>>

\* The returned promise settles as the contraction's promise does.
CON_AwaitContract ==
  /\ con = "L214"
  /\ \/ /\ ops["identity.contractIdentities"] = "ok"
        /\ weightedGraph' = Some(Contracted(Get(mergedGraph)))
        /\ con' = "returned"
     \/ /\ ops["identity.contractIdentities"] = "failed"
        /\ con' = "failed" /\ UNCHANGED weightedGraph
  /\ UNCHANGED <<envVars, opVars, umVars, crdVars, cpgVars, mergedGraph,
                 identitySpec, credVars, ioVars>>

ContractPluginGraphs == CON_Merge \/ CON_Contract \/ CON_AwaitContract

Next ==
  \/ UpdateMirror \/ CreateReferenceDetector \/ CreatePluginGraphs
  \/ ContractPluginGraphs \/ OpSucceeds \/ OpFails
  \/ Declarations

Spec == Init /\ [][Next]_vars

\* ------------------------------------------------- reference detection
\* A reference token is identified with the set of sources whose own detector
\* resolves it; a source's detector answers with an address of its namespace.
Sources == {"github", "discourse", "initiatives"}
RefTokens == SUBSET Sources

AddressFromUrl(child, token) ==
  IF child \in token THEN Some([namespace |-> child, token |-> token])
  ELSE NULL

\* CascadingReferenceDetector.addressFromUrl: the first child's match.
RECURSIVE FirstMatch(_, _)
FirstMatch(children, token) ==
  IF children = <<>> THEN NULL
  ELSE LET found == AddressFromUrl(Head(children), token)
       IN IF Truthy(found) THEN found ELSE FirstMatch(Tail(children), token)

CascadingAddressFromUrl(detector, token) == FirstMatch(detector.children, token)

\* ------------------------------------------------------ distributionToCred
\* Float64 quantities are modelled as exact rationals <<numerator,
\* denominator>> in lowest terms.
RECURSIVE GCD(_, _)
GCD(a, b) == IF b = 0 THEN a ELSE GCD(b, a % b)

Rat(n, d) == LET g == GCD(n, d) IN <<n \div g, d \div g>>
Zero == <<0, 1>>
RatAdd(a, b) == Rat(a[1] * b[2] + b[1] * a[2], a[2] * b[2])
RatMul(a, b) == Rat(a[1] * b[1], a[2] * b[2])
RatDiv(a, b) == Rat(a[1] * b[2], a[2] * b[1])

\* NodeAddress.hasPrefix: the prefix's parts are the address's leading parts.
HasPrefix(address, prefix) ==
  /\ Len(prefix) <= Len(address)
  /\ SubSeq(address, 1, Len(prefix)) = prefix

\* The indices of nodeOrder whose address has some scoring prefix.
ScoringNodeIndices(nodeOrder, scoringNodePrefixes) ==
  {j \in 1..Len(nodeOrder) :
     \E prefix \in scoringNodePrefixes : HasPrefix(nodeOrder[j], prefix)}

\* The sum of xs[j] over the indices j <= n that are in `indices`.
RECURSIVE SumOver(_, _, _)
SumOver(xs, indices, n) ==
  IF n = 0 THEN Zero
  ELSE IF n \in indices THEN RatAdd(SumOver(xs, indices, n - 1), xs[n])
  ELSE SumOver(xs, indices, n - 1)

IntervalCredByTotalMass(d, scoring) ==
  LET all == 1..Len(d.distribution)
      mass == SumOver(d.distribution, all, Len(d.distribution))
  IN [j \in all |->
        IF SumOver(d.distribution, scoring, Len(d.distribution)) = Zero
          THEN Zero
        ELSE RatDiv(RatMul(<<d.intervalWeight, 1>>, d.distribution[j]), mass)]

IntervalCredUnguarded(d, scoring) ==
  LET mass == SumOver(d.distribution, scoring, Len(d.distribution))
  IN [j \in 1..Len(d.distribution) |->
        IF mass = Zero THEN RatMul(<<d.intervalWeight, 1>>, d.distribution[j])
        ELSE RatDiv(RatMul(<<d.intervalWeight, 1>>, d.distribution[j]), mass)]

IntervalCredScoringOnly(d, scoring) ==
  LET mass == SumOver(d.distribution, scoring, Len(d.distribution))
  IN [j \in 1..Len(d.distribution) |->
        IF mass = Zero \/ j \notin scoring THEN Zero
        ELSE RatDiv(RatMul(<<d.intervalWeight, 1>>, d.distribution[j]), mass)]

\* One interval's cred: 0 everywhere when the scoring mass is 0, and
\* intervalWeight * distribution[j] / scoringMass for every node otherwise.
IntervalCred(d, scoring) ==
  LET mass == SumOver(d.distribution, scoring, Len(d.distribution))
  IN [j \in 1..Len(d.distribution) |->
        IF mass = Zero THEN Zero
        ELSE RatDiv(RatMul(<<d.intervalWeight, 1>>, d.distribution[j]), mass)]

\* The scoring mass with a node counted once per prefix it matches.
RECURSIVE MassPerPrefix(_, _, _)
MassPerPrefix(d, nodeOrder, prefixes) ==
  IF prefixes = {} THEN Zero
  ELSE LET prefix == CHOOSE x \in prefixes : TRUE
       IN RatAdd(SumOver(d.distribution,
                         ScoringNodeIndices(nodeOrder, {prefix}),
                         Len(d.distribution)),
                 MassPerPrefix(d, nodeOrder, prefixes \ {prefix}))

distributionToCredPerPrefix(ds, nodeOrder, scoringNodePrefixes) ==
  [intervals |-> [i \in 1..Len(ds) |-> ds[i].interval],
   intervalCredScores |->
     [i \in 1..Len(ds) |->
        LET mass == MassPerPrefix(ds[i], nodeOrder, scoringNodePrefixes)
        IN [j \in 1..Len(nodeOrder) |->
              IF mass = Zero THEN Zero
              ELSE RatDiv(RatMul(<<ds[i].intervalWeight, 1>>,
                                 ds[i].distribution[j]), mass)]]]

distributionToCredReversed(ds, nodeOrder, scoringNodePrefixes) ==
  LET scoring == ScoringNodeIndices(nodeOrder, scoringNodePrefixes)
  IN [intervals |-> [i \in 1..Len(ds) |-> ds[Len(ds) + 1 - i].interval],
      intervalCredScores |-> [i \in 1..Len(ds) |-> IntervalCred(ds[i], scoring)]]

distributionToCred(ds, nodeOrder, scoringNodePrefixes) ==
  LET scoring == ScoringNodeIndices(nodeOrder, scoringNodePrefixes)
  IN [intervals |-> [i \in 1..Len(ds) |-> ds[i].interval],
      intervalCredScores |-> [i \in 1..Len(ds) |-> IntervalCred(ds[i], scoring)]]

\* The inputs the normalizer is applied to.
AllNodes == << <<"foo">>, <<"foo", "x">>, <<"bar">>, <<"baz">> >>
NodeOrders == {SubSeq(AllNodes, 1, n) : n \in 0..MaxNodes}
ScoringPrefixSets ==
  { {}, {<<>>}, {<<"foo", "x">>}, {<<"qux">>},
    {<<"foo">>, <<"foo", "x">>}, {<<"foo">>, <<"bar">>, <<"baz">>} }
Probabilities == {<<0, 1>>, <<1, 10>>, <<9, 10>>, <<1, 1>>}
IntervalWeights == {0, 2, 10}

\* The probability vectors over n nodes: they sum to 1, or are all 0.
Distributions(n) ==
  {d \in [1..n -> Probabilities] : SumOver(d, 1..n, n) \in {Zero, <<1, 1>>}}

RECURSIVE TimelineDistributions(_, _)
TimelineDistributions(n, k) ==
  IF k = 0 THEN {<<>>}
  ELSE LET shorter == TimelineDistributions(n, k - 1)
       IN shorter \cup
            {Append(ds, [interval |-> [startTimeMs |-> 10 * Len(ds),
                                       endTimeMs |-> 10 * Len(ds) + 10],
                         intervalWeight |-> w,
                         distribution |-> d]) :
               ds \in {x \in shorter : Len(x) = k - 1},
               w \in IntervalWeights, d \in Distributions(n)}

CredInit ==
  /\ project = [id |-> "p", repoIds |-> <<>>, discourseServer |-> NULL,
                identities |-> <<>>, initiatives |-> NULL]
  /\ mirrorToken = "" /\ initiativesDirectory = "" /\ graphToken = ""
  /\ PipelineIdle
  /\ IoIdle
  /\ credOut = NULL
  /\ \E nodeOrder \in NodeOrders, scoring \in ScoringPrefixSets :
       \E ds \in TimelineDistributions(Len(nodeOrder), MaxIntervals) :
         credIn = Some([ds |-> ds, nodeOrder |-> nodeOrder,
                        scoringNodePrefixes |-> scoring])

\* One call of distributionToCred on the drawn arguments.
DistributionToCred ==
  /\ Truthy(credIn) /\ credOut = NULL
  /\ credOut' = Some(distributionToCred(Get(credIn).ds, Get(credIn).nodeOrder,
                                        Get(credIn).scoringNodePrefixes))
  /\ UNCHANGED <<envVars, opVars, umVars, crdVars, cpgVars, conVars, credIn, ioVars>>

SpecCred == CredInit /\ [][DistributionToCred]_vars

\* ------------------------------------------------------------- project.js
\* `const COMPAT_INFO = {type: "sourcecred/project", version: "0.5.0"}`
COMPAT_INFO == [type |-> "sourcecred/project", version |-> "0.5.0"]

\* util/compat toCompat: the object paired with its compat info.
toCompat(compatInfo, obj) == <<compatInfo, obj>>

projectToJSONOldTag(p) == toCompat([COMPAT_INFO EXCEPT !.version = "0.4.0"], p)

projectToJSON(p) == toCompat(COMPAT_INFO, p)

\* `({...p, initiatives: null})`
upgradeFrom040(p) ==
  [f \in DOMAIN p \cup {"initiatives"} |->
     IF f = "initiatives" THEN NULL ELSE p[f]]

upgradeFrom030KeepsApiUsername(p) == upgradeFrom040(p)

\* `upgradeFrom040({...p, discourseServer: p.discourseServer != null
\*     ? {serverUrl: p.discourseServer.serverUrl} : null})`
upgradeFrom030(p) ==
  upgradeFrom040(
    [f \in DOMAIN p \cup {"discourseServer"} |->
       IF f = "discourseServer"
         THEN IF p.discourseServer # NULL
                THEN Some([serverUrl |-> Get(p.discourseServer).serverUrl])
                ELSE NULL
         ELSE p[f]])

\* `const upgrades = {"0.3.0": ..., "0.3.1": ..., "0.4.0": ...}`
upgrades == {"0.3.0", "0.3.1", "0.4.0"}
ApplyUpgrade(version, data) ==
  CASE version = "0.3.0" -> upgradeFrom030(data)
    [] version = "0.3.1" -> upgradeFrom030(data)
    [] version = "0.4.0" -> upgradeFrom040(data)

\* util/compat fromCompat: the handler of the document's version when there
\* is one, the data itself at the expected version, an error otherwise.
fromCompat(expected, obj) ==
  LET info == obj[1]
      data == obj[2]
  IN IF info.type # expected.type
       THEN [ok |-> FALSE, value |-> "CompatError", handlers |-> <<>>]
     ELSE IF info.version \in upgrades
       THEN [ok |-> TRUE, value |-> ApplyUpgrade(info.version, data),
             handlers |-> <<info.version>>]
     ELSE IF info.version # expected.version
       THEN [ok |-> FALSE, value |-> "CompatError", handlers |-> <<>>]
     ELSE [ok |-> TRUE, value |-> data, handlers |-> <<>>]

projectFromJSON(j) == fromCompat(COMPAT_INFO, j)

\* The persisted shapes ProjectV030, ProjectV031 and ProjectV040.
LegacyDiscourseServers(version) ==
  CASE version = "0.4.0" -> {NULL, Some([serverUrl |-> "https://forum"])}
    [] version = "0.3.1" ->
         {NULL, Some([serverUrl |-> "https://forum"]),
          Some([serverUrl |-> "https://forum", apiUsername |-> "credbot"])}
    [] OTHER ->
         {NULL, Some([serverUrl |-> "https://forum", apiUsername |-> "credbot"])}

LegacyProjects(version) ==
  [id : {"p"},
   repoIds : SeqsUpTo({"owner/repo"}, MaxRepos),
   discourseServer : LegacyDiscourseServers(version),
   identities : SeqsUpTo({"alice"}, MaxIdentities)]

PersistedVersions == {"0.2.0", "0.3.0", "0.3.1", "0.4.0"}

ProjectInit ==
  /\ project \in Projects
  /\ mirrorToken = "" /\ initiativesDirectory = "" /\ graphToken = ""
  /\ PipelineIdle
  /\ CredIdle
  /\ IoIdle

\* A current project is serialized.
ProjectToJSON ==
  /\ json = NULL
  /\ json' = Some(projectToJSON(project))
  /\ UNCHANGED <<envVars, opVars, umVars, crdVars, cpgVars, conVars, credVars,
                 declVars, loaded, migrated, storeVars>>

\* A document persisted by an earlier version is read back.
ReadPersisted ==
  /\ json = NULL
  /\ \E version \in PersistedVersions :
       \E data \in LegacyProjects(version) :
         json' = Some(<<[type |-> COMPAT_INFO.type, version |-> version], data>>)
  /\ UNCHANGED <<envVars, opVars, umVars, crdVars, cpgVars, conVars, credVars,
                 declVars, loaded, migrated, storeVars>>

\* `projectFromJSON(j)`
ProjectFromJSON ==
  /\ Truthy(json) /\ loaded = NULL
  /\ LET r == projectFromJSON(Get(json))
     IN /\ loaded' = Some([ok |-> r.ok, value |-> r.value])
        /\ migrated' = r.handlers
  /\ UNCHANGED <<envVars, opVars, umVars, crdVars, cpgVars, conVars, credVars,
                 declVars, json, storeVars>>

SpecProject ==
  ProjectInit /\ [][ProjectToJSON \/ ReadPersisted \/ ProjectFromJSON]_vars

\* ------------------------------------------------------------- dataDirectory.js
\* core/project_io directoryForProjectId: one directory per project id.
directoryForProjectId(id) == <<"projects", id>>

\* `fileName(name)`: path.join(projectDirectory, name)
fileName(p, name) == directoryForProjectId(p.id) \o <<name>>

\* backend/compatIO compatWriter(toJSON, typeName): starts writing the
\* converted document to the file.
WriterCall(file, doc) == [file |-> file, doc |-> doc]

\* ProjectStorageExtras: each artifact supplied or not.
ProjectStorageExtras ==
  [weightedGraph : {NULL, Some("weightedGraph")},
   cred : {NULL, Some("cred")},
   pluginDeclarations : {NULL, Some("pluginDeclarations")}]

StoreInit == ProjectInit

\* storeProject is entered; `await fs.mkdirp(projectDirectory)` is issued.
SP_Start ==
  /\ sp = "idle"
  /\ extras' \in {Some(e) : e \in ProjectStorageExtras}
  /\ mkdirp' = "pending"
  /\ sp' = "L52"
  /\ UNCHANGED <<envVars, opVars, umVars, crdVars, cpgVars, conVars, credVars,
                 declVars, jsonVars, created, written>>

MkdirpSucceeds ==
  /\ mkdirp = "pending"
  /\ mkdirp' = "ok"
  /\ created' = created \cup {directoryForProjectId(project.id)}
  /\ UNCHANGED <<envVars, opVars, umVars, crdVars, cpgVars, conVars, credVars,
                 declVars, jsonVars, sp, extras, written>>

MkdirpFails ==
  /\ mkdirp = "pending"
  /\ mkdirp' = "failed"
  /\ UNCHANGED <<envVars, opVars, umVars, crdVars, cpgVars, conVars, credVars,
                 declVars, jsonVars, sp, extras, created, written>>

\* The await of line 52 resumes: on to the writes, or the call rejects.
SP_AwaitMkdirp ==
  /\ sp = "L52"
  /\ mkdirp \in {"ok", "failed"}
  /\ sp' = IF mkdirp = "ok" THEN "L53" ELSE "failed"
  /\ UNCHANGED <<envVars, opVars, umVars, crdVars, cpgVars, conVars, credVars,
                 declVars, jsonVars, extras, mkdirp, created, written>>

\* `writers.project(fileName("project.json"), project)`
SP_Project ==
  /\ sp = "L53"
  /\ written' = Append(written, WriterCall(fileName(project, "project.json"),
                                           projectToJSON(project)))
  /\ sp' = "L54"
  /\ UNCHANGED <<envVars, opVars, umVars, crdVars, cpgVars, conVars, credVars,
                 declVars, jsonVars, extras, mkdirp, created>>

\* `if (weightedGraph) writers.weightedGraph(...)`
SP_WeightedGraph ==
  /\ sp = "L54"
  /\ written' =
       IF Truthy(Get(extras).weightedGraph)
         THEN Append(written, WriterCall(fileName(project, "weightedGraph.json"),
                                         Get(Get(extras).weightedGraph)))
         ELSE written
  /\ sp' = "L57"
  /\ UNCHANGED <<envVars, opVars, umVars, crdVars, cpgVars, conVars, credVars,
                 declVars, jsonVars, extras, mkdirp, created>>

SP_CredUnconditional ==
  /\ sp = "L57"
  /\ written' = Append(written, WriterCall(fileName(project, "cred.json"), "cred"))
  /\ sp' = "L60"
  /\ UNCHANGED <<envVars, opVars, umVars, crdVars, cpgVars, conVars, credVars,
                 declVars, jsonVars, extras, mkdirp, created>>

\* `if (cred) writers.cred(...)`
SP_Cred ==
  /\ sp = "L57"
  /\ written' =
       IF Truthy(Get(extras).cred)
         THEN Append(written, WriterCall(fileName(project, "cred.json"),
                                         Get(Get(extras).cred)))
         ELSE written
  /\ sp' = "L60"
  /\ UNCHANGED <<envVars, opVars, umVars, crdVars, cpgVars, conVars, credVars,
                 declVars, jsonVars, extras, mkdirp, created>>

\* `if (pluginDeclarations) writers.pluginDeclarations(...)`, then return.
SP_PluginDeclarations ==
  /\ sp = "L60"
  /\ written' =
       IF Truthy(Get(extras).pluginDeclarations)
         THEN Append(written,
                     WriterCall(fileName(project, "pluginDeclarations.json"),
                                Get(Get(extras).pluginDeclarations)))
         ELSE written
  /\ sp' = "returned"
  /\ UNCHANGED <<envVars, opVars, umVars, crdVars, cpgVars, conVars, credVars,
                 declVars, jsonVars, extras, mkdirp, created>>

StoreProject ==
  \/ SP_Start
  \/ SP_AwaitMkdirp
  \/ SP_Project
  \/ SP_WeightedGraph
  \/ SP_Cred
  \/ SP_PluginDeclarations

SpecStore ==
  StoreInit /\ [][StoreProject \/ MkdirpSucceeds \/ MkdirpFails]_vars

\* ------------------------------------------------------------- properties
\* The sources a project asks for.
GithubApplies(p) == Len(p.repoIds) > 0
DiscourseApplies(p) == p.discourseServer # NULL
InitiativesApply(p) == p.initiatives # NULL

ApplicableMirrorOps(p) ==
  {o \in MirrorOps :
     \/ o = "github.updateMirror" /\ GithubApplies(p)
     \/ o = "discourse.updateMirror" /\ DiscourseApplies(p)
     \/ o = "initiatives.loadDirectory" /\ InitiativesApply(p)}

Terminal(pc) == pc \in {"returned", "failed"}
Active(pc) == pc \notin {"idle", "returned", "failed"}

\* C1: when updateMirror fails for want of an access token, no source's
\* mirror update (the forum's included) has been invoked.
C1_NoMirrorInvokedAtTokenFailure ==
  (um = "failed" /\ umError = "token") => \A o \in MirrorOps : calls[o] = 0

\* C2: when updateMirror fails for a project with an initiative descriptor
\* and no initiatives directory, no mirror update and no directory load has
\* been invoked.
C2_NoMirrorInvokedAtDirectoryFailure ==
  (um = "failed" /\ InitiativesApply(project) /\ initiativesDirectory = "")
    => \A o \in MirrorOps : calls[o] = 0

\* C3 as stated: when a stage fails because a launched operation failed, no
\* operation launched in that stage is still in flight.
C3_AllSettledAtStageFailure ==
  /\ (um = "failed" /\ umError = "task")
       => \A o \in MirrorOps : ops[o] # "inflight"
  /\ (cpg = "failed" /\ cpgError = "task")
       => \A o \in GraphOps : ops[o] # "inflight"

\* C3 as amended: a stage reports the failure of a launched operation only
\* once some operation it launched has failed (the others may be in flight).
C3_StageFailsOnlyAfterAFailedOperation ==
  /\ (um = "failed" /\ umError = "task")
       => \E o \in MirrorOps : calls[o] > 0 /\ ops[o] = "failed"
  /\ (cpg = "failed" /\ cpgError = "task")
       => \E i \in 1..Len(gtasks) : ops[gtasks[i]] = "failed"

C3_FailureSeenWithSiblingInFlight ==
  /\ cpg = "failed" /\ cpgError = "task"
  /\ \E i \in 1..Len(gtasks) : ops[gtasks[i]] = "failed"
  /\ \E i \in 1..Len(gtasks) : ops[gtasks[i]] = "inflight"

\* C4: a CachedProject exists only if updateMirror returned with every
\* applicable mirror update and the directory load fulfilled; once one of
\* them has failed, updateMirror never returns one.
C4_CachedProjectOnlyIfAllSucceeded ==
  /\ Truthy(cachedProject) <=> um = "returned"
  /\ um = "returned" => \A o \in ApplicableMirrorOps(project) : ops[o] = "ok"
  /\ (\E o \in MirrorOps : ops[o] = "failed") => cachedProject = NULL
  /\ (Terminal(um) /\ \E o \in MirrorOps : ops[o] = "failed") => um = "failed"

C4_ReturnedWithThreeSources ==
  /\ um = "returned"
  /\ ApplicableMirrorOps(project) = MirrorOps
  /\ \A o \in MirrorOps : ops[o] = "ok"

\* C5: with a token and a directory supplied, a finished updateMirror has
\* invoked each applicable source's operation exactly once and no other; an
\* inapplicable source's operation is never invoked, and a project without
\* sources yields a CachedProject with no adapter call.
C5_EachApplicableSourceInvokedOnce ==
  /\ \A o \in MirrorOps : calls[o] > 0 => o \in ApplicableMirrorOps(project)
  /\ (mirrorToken # "" /\ initiativesDirectory # "" /\ Terminal(um))
       => \A o \in MirrorOps :
            calls[o] = IF o \in ApplicableMirrorOps(project) THEN 1 ELSE 0
  /\ ApplicableMirrorOps(project) = {}
       => /\ Terminal(um) => um = "returned"
          /\ con = "idle" => \A o \in OpNames : calls[o] = 0

C5_ReturnedWithSomeSources ==
  /\ um = "returned"
  /\ GithubApplies(project) /\ ~DiscourseApplies(project)
  /\ InitiativesApply(project)
  /\ calls["github.updateMirror"] = 1
  /\ calls["initiatives.loadDirectory"] = 1
  /\ calls["discourse.updateMirror"] = 0

\* The match of the earliest applicable source, in the order code-hosting,
\* forum, initiative, that resolves the token.
EarliestMatch(p, token) ==
  IF GithubApplies(p) /\ "github" \in token
    THEN Some([namespace |-> "github", token |-> token])
  ELSE IF DiscourseApplies(p) /\ "discourse" \in token
    THEN Some([namespace |-> "discourse", token |-> token])
  ELSE IF InitiativesApply(p) /\ "initiatives" \in token
    THEN Some([namespace |-> "initiatives", token |-> token])
  ELSE NULL

\* C6: the detector createReferenceDetector returns has exactly the
\* applicable sources' detectors as children, in the order code-hosting,
\* forum, initiative; it resolves a token to the match of the earliest such
\* source and to no match when no child resolves it.
C6_CascadeInFixedOrder ==
  crd = "returned" =>
    LET p == Get(cachedProject).project
        expected ==
          (IF GithubApplies(p) THEN <<"github">> ELSE <<>>)
          \o (IF DiscourseApplies(p) THEN <<"discourse">> ELSE <<>>)
          \o (IF InitiativesApply(p) THEN <<"initiatives">> ELSE <<>>)
    IN /\ Get(referenceDetector).children = expected
       /\ \A token \in RefTokens :
            CascadingAddressFromUrl(Get(referenceDetector), token)
              = EarliestMatch(p, token)

C6_DetectorOverThreeSources ==
  /\ crd = "returned"
  /\ Len(Get(referenceDetector).children) = 3
  /\ CascadingAddressFromUrl(Get(referenceDetector), Sources)
       = Some([namespace |-> "github", token |-> Sources])
  /\ CascadingAddressFromUrl(Get(referenceDetector), {}) = NULL

\* C7: the stages of a run never overlap and occur in order: detector
\* composition and graph construction only after updateMirror returned,
\* graph construction only after the detector was composed, and merge and
\* contraction only after every launched graph construction completed.
C7_StagesInOrder ==
  /\ crd # "idle" => um = "returned"
  /\ cpg # "idle" => um = "returned" /\ crd = "returned"
  /\ con # "idle" =>
       /\ cpg = "returned"
       /\ \A o \in GraphOps : calls[o] > 0 => ops[o] = "ok"
  /\ Cardinality({s \in {"um", "crd", "cpg", "con"} :
        Active(CASE s = "um" -> um [] s = "crd" -> crd
                 [] s = "cpg" -> cpg [] s = "con" -> con)}) <= 1

C7_ContractedAfterThreeGraphs ==
  /\ con = "returned"
  /\ Len(gtasks) = 3
  /\ \A o \in GraphOps : ops[o] = "ok"

\* C8: without manual identity merges contractPluginGraphs returns the very
\* graph the merge produced and never invokes the identity contraction.
C8_NoIdentitiesReturnsMergedGraph ==
  Len(project.identities) = 0 =>
    /\ calls["identity.contractIdentities"] = 0
    /\ con = "returned" =>
         /\ weightedGraph = mergedGraph
         /\ Get(weightedGraph).instance = "merged"
         /\ ~Get(weightedGraph).contracted

C8_MergedGraphReturned ==
  /\ con = "returned"
  /\ Len(project.identities) = 0
  /\ Len(Get(pluginGraphs).graphs) >= 2
  /\ weightedGraph = mergedGraph

\* The arguments and the result of the distributionToCred call.
Scoring == ScoringNodeIndices(Get(credIn).nodeOrder,
                              Get(credIn).scoringNodePrefixes)
ScoringMass(i) ==
  SumOver(Get(credIn).ds[i].distribution, Scoring, Len(Get(credIn).nodeOrder))
CredOf(i) == Get(credOut).intervalCredScores[i]

C10_ZeroScoringMassGivesZeroCred ==
  Truthy(credOut) =>
    \A i \in 1..Len(Get(credIn).ds) :
      ScoringMass(i) = Zero =>
        /\ DOMAIN CredOf(i) = 1..Len(Get(credIn).nodeOrder)
        /\ \A j \in 1..Len(Get(credIn).nodeOrder) : CredOf(i)[j] = Zero

C10_ZeroMassWithNonScoringProbability ==
  /\ Truthy(credOut)
  /\ Get(credIn).scoringNodePrefixes = {<<"foo", "x">>}
  /\ Len(Get(credIn).ds) >= 1
  /\ Get(credIn).ds[1].intervalWeight = 2
  /\ Get(credIn).ds[1].distribution = << <<1, 1>>, <<0, 1>> >>
  /\ CredOf(1) = << Zero, Zero >>

C12_CoveringPrefixesActAsEmptyPrefix ==
  (Truthy(credOut) /\ Scoring = 1..Len(Get(credIn).nodeOrder)) =>
    /\ Get(credOut) = distributionToCred(Get(credIn).ds, Get(credIn).nodeOrder,
                                         {<<>>})
    /\ \A i \in 1..Len(Get(credIn).ds) :
         ScoringMass(i) = SumOver(Get(credIn).ds[i].distribution,
                                  1..Len(Get(credIn).nodeOrder),
                                  Len(Get(credIn).nodeOrder))
    /\ \A i \in 1..Len(Get(credIn).ds) :
         ScoringMass(i) = <<1, 1>> =>
           \A j \in 1..Len(Get(credIn).nodeOrder) :
             CredOf(i)[j] = RatMul(<<Get(credIn).ds[i].intervalWeight, 1>>,
                                   Get(credIn).ds[i].distribution[j])

C12_NodeMatchedByTwoPrefixes ==
  /\ Truthy(credOut)
  /\ Get(credIn).scoringNodePrefixes = {<<"foo">>, <<"foo", "x">>}
  /\ Len(Get(credIn).nodeOrder) = 2
  /\ Scoring = {1, 2}
  /\ Len(Get(credIn).ds) = 2
  /\ Get(credIn).ds[2].intervalWeight = 10
  /\ Get(credIn).ds[2].distribution = << <<9, 10>>, <<1, 10>> >>
  /\ CredOf(2) = << <<9, 1>>, <<1, 1>> >>

\* C13: the result has one interval and one cred vector per input interval,
\* in input order, the bounds copied unchanged and every cred vector as long
\* as nodeOrder; no input intervals give empty intervals and cred scores.
C13_OneCredVectorPerInterval ==
  Truthy(credOut) =>
    LET ds == Get(credIn).ds
        out == Get(credOut)
    IN /\ DOMAIN out = {"intervals", "intervalCredScores"}
       /\ Len(out.intervals) = Len(ds)
       /\ Len(out.intervalCredScores) = Len(ds)
       /\ \A i \in 1..Len(ds) :
            /\ out.intervals[i] = [startTimeMs |-> 10 * (i - 1),
                                   endTimeMs |-> 10 * i]
            /\ out.intervals[i] = ds[i].interval
            /\ Len(out.intervalCredScores[i]) = Len(Get(credIn).nodeOrder)
       /\ ds = <<>> => out = [intervals |-> <<>>, intervalCredScores |-> <<>>]

C13_TwoIntervalsInOrder ==
  /\ Truthy(credOut)
  /\ Len(Get(credIn).ds) = 2
  /\ Len(Get(credIn).nodeOrder) = 2
  /\ Get(credOut).intervals =
       << [startTimeMs |-> 0, endTimeMs |-> 10],
          [startTimeMs |-> 10, endTimeMs |-> 20] >>

\* C14: projectToJSON(p) carries the version tag 0.5.0, and
\* projectFromJSON(projectToJSON(p)) is p, with no migration applied.
C14_SerializeThenLoadIsIdentity ==
  (Truthy(json) /\ json = Some(projectToJSON(project))) =>
    /\ Get(json)[1] = [type |-> "sourcecred/project", version |-> "0.5.0"]
    /\ Truthy(loaded) =>
         /\ Get(loaded).ok
         /\ Get(loaded).value = project
         /\ migrated = <<>>

C14_ProjectWithEveryFieldRoundTrips ==
  /\ Truthy(loaded)
  /\ Get(json)[1].version = "0.5.0"
  /\ Get(loaded).ok /\ Get(loaded).value = project
  /\ project.repoIds # <<>> /\ project.identities # <<>>
  /\ Truthy(project.discourseServer) /\ Truthy(project.initiatives)

\* The migrations of the chain 0.3.0 -> 0.3.1 -> 0.4.0 -> 0.5.0, one step
\* each: 0.3.1 makes apiUsername optional, 0.4.0 drops it, 0.5.0 adds
\* initiatives, absent by default.
ChainStep(version, p) ==
  CASE version = "0.3.0" -> p
    [] version = "0.3.1" ->
         [id |-> p.id, repoIds |-> p.repoIds, identities |-> p.identities,
          discourseServer |->
            IF p.discourseServer = NULL THEN NULL
            ELSE Some([serverUrl |-> Get(p.discourseServer).serverUrl])]
    [] version = "0.4.0" ->
         [id |-> p.id, repoIds |-> p.repoIds, identities |-> p.identities,
          discourseServer |-> p.discourseServer, initiatives |-> NULL]

ChainUpgrade(version, p) ==
  CASE version = "0.3.0" ->
         ChainStep("0.4.0", ChainStep("0.3.1", ChainStep("0.3.0", p)))
    [] version = "0.3.1" -> ChainStep("0.4.0", ChainStep("0.3.1", p))
    [] version = "0.4.0" -> ChainStep("0.4.0", p)

\* C15: upgrading a document tagged 0.3.0, 0.3.1 or 0.4.0 gives a project of
\* the current shape with the same id, repoIds and identities, initiatives
\* null and discourseServer null or its serverUrl alone; it is what the
\* single-step migrations give when applied in chain order.
C15_LegacyUpgradesToCurrentShape ==
  (Truthy(loaded) /\ Get(json)[1].version \in {"0.3.0", "0.3.1", "0.4.0"}) =>
    LET old == Get(json)[2]
        new == Get(loaded).value
    IN /\ Get(loaded).ok
       /\ DOMAIN new = {"id", "repoIds", "discourseServer", "identities",
                        "initiatives"}
       /\ new.id = old.id /\ new.repoIds = old.repoIds
       /\ new.identities = old.identities
       /\ new.initiatives = NULL
       /\ new.discourseServer =
            IF old.discourseServer = NULL THEN NULL
            ELSE Some([serverUrl |-> Get(old.discourseServer).serverUrl])
       /\ new = ChainUpgrade(Get(json)[1].version, old)
       /\ new \in Projects

C15_ApiUsernameDropped ==
  /\ Truthy(loaded)
  /\ Get(json)[1].version = "0.3.0"
  /\ Truthy(Get(json)[2].discourseServer)
  /\ Get(json)[2].repoIds # <<>>
  /\ Get(loaded).ok
  /\ Get(loaded).value.discourseServer = Some([serverUrl |-> "https://forum"])
  /\ migrated = <<"0.3.0">>

FilesWritten == {written[i].file : i \in 1..Len(written)}
ArtifactFile(a) == fileName(project, a \o ".json")
Artifacts == {"weightedGraph", "cred", "pluginDeclarations"}

\* C16: storeProject starts no write before the project directory exists; a
\* call that returns has written project.json, and weightedGraph.json,
\* cred.json and pluginDeclarations.json each exactly when that artifact was
\* supplied; no file is ever written for an absent artifact.
C16_DirectoryFirstThenSuppliedArtifacts ==
  /\ written # <<>> =>
       mkdirp = "ok" /\ directoryForProjectId(project.id) \in created
  /\ \A a \in Artifacts :
       ArtifactFile(a) \in FilesWritten => Truthy(Get(extras)[a])
  /\ Cardinality(FilesWritten) = Len(written)
  /\ sp \in {"L54", "L57", "L60", "returned"} =>
       written[1] = [file |-> fileName(project, "project.json"),
                     doc |-> projectToJSON(project)]
  /\ sp = "returned" =>
       FilesWritten =
         {fileName(project, "project.json")} \cup
         {ArtifactFile(a) : a \in {b \in Artifacts : Truthy(Get(extras)[b])}}
  /\ sp = "failed" => written = <<>>

C16_StoredWithoutCred ==
  /\ sp = "returned"
  /\ Truthy(Get(extras).weightedGraph)
  /\ ~Truthy(Get(extras).cred)
  /\ Truthy(Get(extras).pluginDeclarations)
  /\ Len(written) = 3

DeclarationSources == {"github", "discourse", "identity", "initiatives"}
DeclarationApplies(source, p) ==
  CASE source = "github" -> p.repoIds # <<>>
    [] source = "discourse" -> p.discourseServer # NULL
    [] source = "identity" -> p.identities # <<>>
    [] source = "initiatives" -> p.initiatives # NULL
DeclarationRank(source) ==
  CASE source = "github" -> 1
    [] source = "discourse" -> 2
    [] source = "identity" -> 3
    [] source = "initiatives" -> 4

\* C17: declarations returns one declaration per applicable source and none
\* for any other, ordered code-hosting, forum, identity, initiatives; it can
\* be called whatever the tokens are and before anything has been mirrored.
C17_OneDeclarationPerApplicableSource ==
  /\ decls = NULL => ENABLED Declarations
  /\ Truthy(decls) =>
       LET d == Get(decls)
       IN /\ \A source \in DeclarationSources :
               Cardinality({i \in 1..Len(d) : d[i] = source}) =
                 IF DeclarationApplies(source, project) THEN 1 ELSE 0
          /\ \A i \in 1..Len(d) : d[i] \in DeclarationSources
          /\ \A i, j \in 1..Len(d) :
               i < j => DeclarationRank(d[i]) < DeclarationRank(d[j])

C17_FourDeclarationsBeforeAnyMirror ==
  /\ Truthy(decls)
  /\ Get(decls) = <<"github", "discourse", "identity", "initiatives">>
  /\ um = "idle" /\ cachedProject = NULL
  /\ mirrorToken = "" /\ graphToken = ""

\* C18: with at least one identity merge, contractPluginGraphs invokes the
\* identity contraction once, on the merge of all plugin graphs, with the
\* project's identities and the forum server's URL (null without a forum
\* server), and returns what the contraction resolves to.
C18_ContractionOfMergedGraph ==
  (Len(project.identities) # 0 /\ con \in {"L214", "returned", "failed"}) =>
    /\ calls["identity.contractIdentities"] = 1
    /\ mergedGraph = Some(Merge(Get(pluginGraphs).graphs))
    /\ Get(mergedGraph).namespaces =
         UNION {GraphOf(gtasks[i]).namespaces : i \in 1..Len(gtasks)}
    /\ identitySpec =
         Some([identities |-> project.identities,
               discourseServerUrl |->
                 IF project.discourseServer = NULL THEN "null"
                 ELSE Get(project.discourseServer).serverUrl])
    /\ con = "returned" =>
         /\ ops["identity.contractIdentities"] = "ok"
         /\ weightedGraph = Some(Contracted(Get(mergedGraph)))
    /\ con = "failed" => ops["identity.contractIdentities"] = "failed"

C18_ContractedWithForumUrl ==
  /\ con = "returned"
  /\ Len(project.identities) # 0
  /\ Truthy(project.discourseServer)
  /\ Get(identitySpec).discourseServerUrl = "https://forum"
  /\ Get(weightedGraph).contracted
  /\ Len(Get(pluginGraphs).graphs) = 3

\* C19: createReferenceDetector and createPluginGraphs, given no access token
\* for a project with repositories, end in failure, and the code-hosting
\* source's referenceDetector / createGraph is not invoked in that call.
C19_NoTokenFailsWithoutInvokingGithub ==
  /\ (crd # "idle" /\ cpg = "idle" /\ graphToken = ""
      /\ GithubApplies(Get(cachedProject).project)) =>
       /\ calls["github.referenceDetector"] = 0
       /\ crd \in {"L135", "failed"}
       /\ referenceDetector = NULL
  /\ (cpg # "idle" /\ graphToken = ""
      /\ GithubApplies(Get(cachedProject).project)) =>
       /\ calls["github.createGraph"] = 0
       /\ cpg \in {"L165", "L169", "failed"}
       /\ cpg = "failed" => cpgError = "token"
       /\ pluginGraphs = NULL

C19_GraphsFailedForWantOfToken ==
  /\ cpg = "failed" /\ cpgError = "token"
  /\ graphToken = ""
  /\ GithubApplies(Get(cachedProject).project)
  /\ calls["github.createGraph"] = 0
  /\ calls["github.referenceDetector"] = 1

ApplicableGraphOps ==
  {o \in GraphOps :
     \/ o = "github.createGraph" /\ GithubApplies(Get(cachedProject).project)
     \/ o = "discourse.createGraph"
          /\ DiscourseApplies(Get(cachedProject).project)
     \/ o = "initiatives.createGraph"
          /\ Truthy(Get(cachedProject).loadedInitiativesDir)}

\* C20: when updateMirror or createPluginGraphs reaches its first await,
\* every applicable source's operation has been started, and until then the
\* stage can always take its next step, whatever the state of the operations
\* it has started.
C20_AllStartedBeforeFirstAwait ==
  /\ um \in {"L116", "L125"} =>
       \A o \in ApplicableMirrorOps(project) : calls[o] = 1
  /\ um \in {"L95", "L100", "L110"} => ENABLED UpdateMirror
  /\ cpg = "L189" => \A o \in ApplicableGraphOps : calls[o] = 1
  /\ cpg \in {"L165", "L169", "L176"} => ENABLED CreatePluginGraphs

C20_AllOperationsInFlight ==
  /\ cpg = "L189"
  /\ \A o \in GraphOps : ops[o] = "inflight"
  /\ \A o \in MirrorOps : calls[o] = 1

C20_AllMirrorUpdatesInFlight ==
  /\ um = "L116"
  /\ \A o \in MirrorOps : ops[o] = "inflight"

GraphRank(o) ==
  CASE o = "discourse.createGraph" -> 1
    [] o = "github.createGraph" -> 2
    [] o = "initiatives.createGraph" -> 3

\* C21: the PluginGraphs createPluginGraphs returns holds one graph per
\* applicable source, none twice, ordered forum, code-hosting, initiatives,
\* in whatever order the graph constructions completed, and its cachedProject
\* has the cache, project and loaded initiatives directory it was given.
C21_GraphsInLaunchOrder ==
  cpg = "returned" =>
    LET graphs == Get(pluginGraphs).graphs
        made == {graphs[i].instance : i \in 1..Len(graphs)}
    IN /\ made = ApplicableGraphOps
       /\ Cardinality(made) = Len(graphs)
       /\ \A i \in 1..Len(graphs) : graphs[i] = GraphOf(graphs[i].instance)
       /\ \A i, j \in 1..Len(graphs) :
            i < j => GraphRank(graphs[i].instance) < GraphRank(graphs[j].instance)
       /\ Get(pluginGraphs).cachedProject = Get(cachedProject)

\* The graph constructions completed in the reverse of their launch order.
C21_CompletedInReverseOrder ==
  /\ cpg = "returned"
  /\ Len(Get(pluginGraphs).graphs) = 3
  /\ SelectSeq(settled, LAMBDA o : o \in GraphOps) =
       <<"initiatives.createGraph", "github.createGraph",
         "discourse.createGraph">>

\* C22: the CachedProject updateMirror returns, and the PluginGraphs made
\* from it, hold a loaded initiatives directory exactly when the project has
\* an initiative descriptor; the reference detector has the initiatives
\* child, and the plugin graphs the initiatives graph, exactly then.
C22_LoadedDirectoryIffInitiatives ==
  /\ Truthy(cachedProject) =>
       /\ Get(cachedProject).project = project
       /\ Truthy(Get(cachedProject).loadedInitiativesDir)
            <=> InitiativesApply(project)
  /\ crd = "returned" =>
       ((\E i \in 1..Len(Get(referenceDetector).children) :
           Get(referenceDetector).children[i] = "initiatives")
        <=> InitiativesApply(project))
  /\ Truthy(pluginGraphs) =>
       /\ Get(pluginGraphs).cachedProject.project = project
       /\ Truthy(Get(pluginGraphs).cachedProject.loadedInitiativesDir)
            <=> InitiativesApply(project)
       /\ (\E i \in 1..Len(Get(pluginGraphs).graphs) :
             Get(pluginGraphs).graphs[i].instance = "initiatives.createGraph")
            <=> InitiativesApply(project)

C22_InitiativesCarriedThrough ==
  /\ cpg = "returned"
  /\ InitiativesApply(project)
  /\ Truthy(Get(pluginGraphs).cachedProject.loadedInitiativesDir)
  /\ Get(referenceDetector).children = <<"initiatives">>
  /\ Get(pluginGraphs).graphs = <<GraphOf("initiatives.createGraph")>>
====
